---------------------------- MODULE Spec2Model ----------------------------
(***************************************************************************)
(* MailBot (src/mailbot/mailbot.py): the processing-state machine that     *)
(* MailBot keeps in the two IMAP flags \Seen and \Flagged of each message, *)
(* the timeout reaper, the callback dispatch and the process_messages      *)
(* cycle.  One action is one gateway call (search, fetch, add_flags,       *)
(* remove_flags) together with the local code that follows it up to the    *)
(* next gateway call, or one process_message call; several MailBot         *)
(* instances may run on the same mailbox and interleave at these steps.    *)
(***************************************************************************)
EXTENDS Integers, Sequences, FiniteSets, TLC

(***************************************************************************)
(* Bounds of the model.                                                    *)
(***************************************************************************)
MaxUid == 2         \* messages in the mailbox of a single MailBot
MaxUidShared == 1   \* messages in the mailbox shared by two MailBots
MaxCallbacks == 2   \* registered (callback, rules) pairs: 0..MaxCallbacks
MaxTime == 2        \* the clock runs over 0..MaxTime
MaxDate == 1        \* INTERNALDATE values: 0..MaxDate
MaxTimeout == 1     \* timeout values: None or 1..MaxTimeout seconds
MaxOps == 2         \* flag operations applied in a row in SpecFlags

VARIABLES
    flags,          \* mailbox: uid -> set of IMAP flags of the message
    internaldate,   \* mailbox: uid -> arrival time (INTERNALDATE.replace(tzinfo=None))
    rfc822,         \* mailbox: uid -> "ok" | "bad": does message_from_string succeed
    now,            \* datetime.utcnow()
    CALLBACKS_MAP,  \* the registered pairs, in registration order
    timeout,        \* self.timeout of each MailBot: {} is None, {d} is d seconds
    pc,             \* where each MailBot is inside process_messages
    loc,            \* the local variables of each MailBot's running call
    outcome,        \* how the last process_messages call of each MailBot ended
    cyc,            \* history of the observed MailBot's current (or last) cycle
    mayraise,       \* uids whose callbacks can raise; NoUid: they can on None
    hist            \* SpecFlags: the flag operations applied so far

vars == <<flags, internaldate, rfc822, now, CALLBACKS_MAP, timeout, pc, loc,
          outcome, cyc, mayraise, hist>>

config == <<internaldate, rfc822, CALLBACKS_MAP, timeout, mayraise>>

(***************************************************************************)
(* The flags and the three processing states they encode.                  *)
(***************************************************************************)
Seen == "Seen"
Flagged == "Flagged"
FlagSets == SUBSET {Seen, Flagged}

Unprocessed == {}
Processing == {Seen, Flagged}
Processed == {Seen}
Invalid == {Flagged}

NoUid == 0

(***************************************************************************)
(* The gateway (IMAPClient) primitives, each atomic on the mailbox.        *)
(***************************************************************************)
add_flags(fl, uids, fs) ==
    [m \in DOMAIN fl |-> IF m \in uids THEN fl[m] \cup fs ELSE fl[m]]

\* mutant: the call changes nothing
remove_flags_Nothing(fl, uids, fs) == fl

remove_flags(fl, uids, fs) ==
    [m \in DOMAIN fl |-> IF m \in uids THEN fl[m] \ fs ELSE fl[m]]

Matches(f, criterion) ==
    CASE criterion = "Seen" -> Seen \in f
      [] criterion = "Unseen" -> Seen \notin f
      [] criterion = "Flagged" -> Flagged \in f
      [] criterion = "Unflagged" -> Flagged \notin f

\* mutant: one matching criterion is enough
search_Any(fl, criteria) ==
    {m \in DOMAIN fl : \E c \in criteria : Matches(fl[m], c)}

search(fl, criteria) ==
    {m \in DOMAIN fl : \A c \in criteria : Matches(fl[m], c)}

(***************************************************************************)
(* The three flag operations of MailBot.                                   *)
(***************************************************************************)
mark_processing(fl, u) == add_flags(fl, {u}, {Flagged, Seen})

\* mutant: the wrong flag is removed
mark_processed_remove_Seen(fl, u) == remove_flags(fl, {u}, {Seen})

mark_processed_remove(fl, u) == remove_flags(fl, {u}, {Flagged})

\* mutant: the wrong flag is added
mark_processed_add_Flagged(fl, u) == add_flags(fl, {u}, {Flagged})

mark_processed_add(fl, u) == add_flags(fl, {u}, {Seen})

mark_processed(fl, u) == mark_processed_add(mark_processed_remove(fl, u), u)

\* mutant: \Seen is left in place
mark_unseen_KeepSeen(fl, uids) == remove_flags(fl, uids, {Flagged})

mark_unseen(fl, uids) == remove_flags(fl, uids, {Flagged, Seen})

(***************************************************************************)
(* get_message_ids and the reaper's selection.                             *)
(***************************************************************************)
\* mutant: the search has no criteria
get_message_ids_All(fl) == search(fl, {})

get_message_ids(fl) == search(fl, {"Unseen", "Unflagged"})

\* mutant: the reaper never runs
ReaperDisabled_Always(t) == TRUE

ReaperDisabled(t) == t = {}

Seconds(t) == CHOOSE d \in t : TRUE

\* mutant: the subtraction is the wrong way round
date_pivot_Reversed(t, clock) == Seconds(t) - clock

date_pivot(t, clock) == clock - Seconds(t)

\* mutant: a message dated exactly at the pivot is reset too
TooOld_Inclusive(date, p) == date <= p

TooOld(date, p) == date < p

ToReset(found, dates, p) == {m \in found : TooOld(dates[m], p)}

(***************************************************************************)
(* Initial states.                                                         *)
(***************************************************************************)
Timeouts == {{}} \cup {{d} : d \in 1..MaxTimeout}

CallbackMaps == {[i \in 1..n |-> i] : n \in 0..MaxCallbacks}

\* rt_ids, to_reset: locals of reset_timeout_messages; ids: local of
\* get_messages; messages (the items not yet iterated), uid, message and cb
\* (index of the next pair of CALLBACKS_MAP): locals of process_messages
NoLocals ==
    [rt_ids |-> {}, to_reset |-> {}, ids |-> {}, messages |-> {}, uid |-> NoUid,
     message |-> "None", cb |-> 1]

\* start: the clock and pre: the flags when the cycle started; answer: what
\* the reaper's search answered ("" before it does); rnow: the utcnow() of
\* line 117 ({} if not read); found: the candidate search's answer ({} if
\* it did not answer); claimed: uids whose mark_processing succeeded;
\* events: uid -> the callback calls of its iteration; errlog: the log.error
\* records; gwfail: did a gateway call raise; failed: the steps at which
\* one did
NewCycle(clock, fl) ==
    [start |-> clock, pre |-> fl, answer |-> "", rnow |-> {}, found |-> {},
     claimed |-> {}, events |-> [m \in DOMAIN fl |-> <<>>], errlog |-> {},
     gwfail |-> FALSE, failed |-> {}]

\* the MailBot whose cycles cyc records
Observed == "A"

InitWith(Uids, Bots, FlagChoice) ==
    /\ flags \in [Uids -> FlagChoice]
    /\ internaldate \in [Uids -> 0..MaxDate]
    /\ rfc822 \in [Uids -> {"ok", "bad"}]
    /\ now = 0
    /\ CALLBACKS_MAP \in CallbackMaps
    /\ timeout \in [Bots -> Timeouts]
    /\ pc = [o \in Bots |-> "idle"]
    /\ loc = [o \in Bots |-> NoLocals]
    /\ outcome = [o \in Bots |-> "none"]
    /\ cyc = NewCycle(now, flags)
    /\ hist = <<>>

ValidFlagSets == {Unprocessed, Processing, Processed}

\* callbacks are arbitrary code: any call can raise, whatever it is given
AnyCallRaises(Uids) == mayraise = Uids \cup {NoUid}

\* two MailBots on one mailbox
Init == InitWith(1..MaxUidShared, {"A", "B"}, ValidFlagSets)
        /\ AnyCallRaises(1..MaxUidShared)

\* a single MailBot
InitSingle == InitWith(1..MaxUid, {"A"}, ValidFlagSets) /\ AnyCallRaises(1..MaxUid)

Bots == DOMAIN pc

Obs(o, new) == cyc' = IF o = Observed THEN new ELSE cyc

(***************************************************************************)
(* How a process_messages call ends: its locals are gone.                  *)
(***************************************************************************)
End(o, how) ==
    /\ pc' = [pc EXCEPT ![o] = "idle"]
    /\ outcome' = [outcome EXCEPT ![o] = how]
    /\ loc' = [loc EXCEPT ![o] = NoLocals]

GatewayRaise(o) ==
    /\ End(o, "GatewayError")
    /\ Obs(o, [cyc EXCEPT !.gwfail = TRUE, !.failed = @ \cup {pc[o]}])

Goto(o, label, locals) ==
    /\ pc' = [pc EXCEPT ![o] = label]
    /\ loc' = [loc EXCEPT ![o] = locals]
    /\ UNCHANGED outcome

\* mutant: mark_processed without the test of line 95
AfterCallbacks_Unguarded(msg) == "mark_processed"

\* lines 93-96: the loop over CALLBACKS_MAP runs whether or not message is
\* None; mark_processed only when it is not
AfterCallbacks(msg) == IF msg # "None" THEN "mark_processed" ELSE "loop"

\* mutant: with nothing registered the iteration ends at once
DispatchPc_SkipEmpty(msg) ==
    IF CALLBACKS_MAP # <<>> THEN "process_message" ELSE "loop"

DispatchPc(msg) ==
    IF CALLBACKS_MAP # <<>> THEN "process_message" ELSE AfterCallbacks(msg)

(***************************************************************************)
(* process_messages, line 68: a cycle starts with reset_timeout_messages,  *)
(* which returns at once when timeout is None (lines 107-108).             *)
(***************************************************************************)
ProcessMessages(o) ==
    /\ pc[o] = "idle"
    /\ pc' = [pc EXCEPT ![o] =
                IF ReaperDisabled(timeout[o]) THEN "get_message_ids" ELSE "rt_search"]
    /\ outcome' = [outcome EXCEPT ![o] = "running"]
    /\ Obs(o, NewCycle(now, flags))
    /\ UNCHANGED <<flags, now, config, loc, hist>>

(***************************************************************************)
(* reset_timeout_messages, lines 110-121: search the Processing messages.  *)
(* A search that finds nothing may answer with an empty list or with no    *)
(* list at all (None, the case line 112 tests for); then messages stays    *)
(* None, to_reset is never bound and line 121 raises UnboundLocalError.    *)
(***************************************************************************)
SearchAnswers(found) ==
    {[none |-> FALSE, ids |-> found]} \cup
    (IF found = {} THEN {[none |-> TRUE, ids |-> {}]} ELSE {})

RtSearch(o) ==
    /\ pc[o] = "rt_search"
    /\ \/ \E r \in SearchAnswers(search(flags, {"Flagged", "Seen"})) :
            /\ IF r.none
               THEN End(o, "UnboundLocalError")
               ELSE Goto(o, "rt_fetch", [loc[o] EXCEPT !.rt_ids = r.ids])
            /\ Obs(o, [cyc EXCEPT !.answer = IF r.none THEN "None"
                                              ELSE IF r.ids = {} THEN "empty"
                                              ELSE "ids"])
       \/ GatewayRaise(o)
    /\ UNCHANGED <<flags, now, config, hist>>

(***************************************************************************)
(* reset_timeout_messages, lines 113-121: fetch the INTERNALDATEs, compute *)
(* date_pivot and to_reset.                                                *)
(***************************************************************************)
RtFetch(o) ==
    /\ pc[o] = "rt_fetch"
    /\ \/ LET p == date_pivot(timeout[o], now)
              tr == ToReset(loc[o].rt_ids, internaldate, p)
          IN /\ Obs(o, [cyc EXCEPT !.rnow = {now}])
             /\ Goto(o, IF tr # {} THEN "rt_mark_unseen" ELSE "get_message_ids",
                     [loc[o] EXCEPT !.rt_ids = {}, !.to_reset = tr])
       \/ GatewayRaise(o)
    /\ UNCHANGED <<flags, now, config, hist>>

(***************************************************************************)
(* reset_timeout_messages, line 122: mark_unseen(to_reset).                *)
(***************************************************************************)
RtMarkUnseen(o) ==
    /\ pc[o] = "rt_mark_unseen"
    /\ \/ /\ flags' = mark_unseen(flags, loc[o].to_reset)
          /\ Goto(o, "get_message_ids", [loc[o] EXCEPT !.to_reset = {}])
          /\ UNCHANGED cyc
       \/ GatewayRaise(o) /\ UNCHANGED flags
    /\ UNCHANGED <<now, config, hist>>

(***************************************************************************)
(* get_messages, line 51: the candidate search.  When it raises, the       *)
(* handler of line 53 evaluates str(ids) with ids unbound, so that         *)
(* UnboundLocalError leaves get_messages before anything is logged.        *)
(***************************************************************************)
GetMessageIds(o) ==
    /\ pc[o] = "get_message_ids"
    /\ \/ LET found == get_message_ids(flags)
          IN /\ Goto(o, "fetch", [loc[o] EXCEPT !.ids = found])
             /\ Obs(o, [cyc EXCEPT !.found = {found}])
       \/ /\ End(o, "UnboundLocalError")
          /\ Obs(o, [cyc EXCEPT !.gwfail = TRUE, !.failed = @ \cup {pc[o]}])
    /\ UNCHANGED <<flags, now, config, hist>>

(***************************************************************************)
(* get_messages, lines 52-56: the bulk fetch of the candidates.  A failure *)
(* is logged and raised again as Exception("Error in get_messages ...").   *)
(***************************************************************************)
\* mutant: the error message leaves the ids out
LogGetMessages_NoIds(ids) == [where |-> "get_messages", uids |-> {}]

\* line 54: error_msg, which is logged and is the raised exception's text
LogGetMessages(ids) == [where |-> "get_messages", uids |-> ids]

Fetch(o) ==
    /\ pc[o] = "fetch"
    /\ \/ /\ Goto(o, "loop", [loc[o] EXCEPT !.ids = {}, !.messages = loc[o].ids])
          /\ UNCHANGED cyc
       \/ /\ End(o, "Error in get_messages")
          /\ Obs(o, [cyc EXCEPT !.gwfail = TRUE, !.failed = @ \cup {pc[o]},
                                !.errlog = @ \cup {LogGetMessages(loc[o].ids)}])
    /\ UNCHANGED <<flags, now, config, hist>>

(***************************************************************************)
(* process_messages, lines 71-81: the next item of messages.items() (in    *)
(* the dict's order, which the gateway decides), mark_processing, then the *)
(* parse.  Either failure is caught by line 77 and logged.                 *)
(***************************************************************************)
LogProcessMessages(u) == [where |-> "process_messages", uids |-> {u}]

MarkProcessing(o) ==
    /\ pc[o] = "loop"
    /\ \E u \in loc[o].messages :
         LET l == [loc[o] EXCEPT !.messages = @ \ {u}, !.uid = u, !.cb = 1]
         IN \/ /\ flags' = mark_processing(flags, u)
               /\ IF rfc822[u] = "ok"
                  THEN /\ Goto(o, DispatchPc("message"), [l EXCEPT !.message = "message"])
                       /\ Obs(o, [cyc EXCEPT !.claimed = @ \cup {u}])
                  ELSE /\ Goto(o, "mark_unseen", [l EXCEPT !.message = "None"])
                       /\ Obs(o, [cyc EXCEPT !.claimed = @ \cup {u},
                                             !.errlog = @ \cup {LogProcessMessages(u)}])
            \/ /\ Goto(o, "mark_unseen", [l EXCEPT !.message = "None"])
               /\ Obs(o, [cyc EXCEPT !.gwfail = TRUE,
                                     !.failed = @ \cup {"mark_processing"},
                                     !.errlog = @ \cup {LogProcessMessages(u)}])
               /\ UNCHANGED flags
    /\ UNCHANGED <<now, config, hist>>

(***************************************************************************)
(* process_messages, line 71: messages.items() is exhausted, the call      *)
(* returns.                                                                *)
(***************************************************************************)
Return(o) ==
    /\ pc[o] = "loop"
    /\ loc[o].messages = {}
    /\ End(o, "returned")
    /\ UNCHANGED <<flags, now, config, cyc, hist>>

(***************************************************************************)
(* process_messages, line 92: mark_unseen(uid) inside the handler; a       *)
(* gateway failure here is not caught.                                     *)
(***************************************************************************)
MarkUnseen(o) ==
    /\ pc[o] = "mark_unseen"
    /\ \/ /\ flags' = mark_unseen(flags, {loc[o].uid})
          /\ Goto(o, DispatchPc("None"), loc[o])
          /\ UNCHANGED cyc
       \/ GatewayRaise(o) /\ UNCHANGED flags
    /\ UNCHANGED <<now, config, hist>>

(***************************************************************************)
(* process_message, lines 58-62, called by lines 93-94 for the pair cb:    *)
(* check_rules, and trigger when it returned true.  What a callback        *)
(* answers (or that it raises) is the callback's business: any answer is   *)
(* possible at each call.  A raise is not caught anywhere.                 *)
(***************************************************************************)
Call(pair, op, arg, res) == [cb |-> pair, op |-> op, arg |-> arg, res |-> res]

\* mutant: trigger whatever check_rules answered
process_message_NoCheck(msg, pair, check, trig) ==
    <<Call(pair, "check_rules", msg, check), Call(pair, "trigger", msg, trig)>>

process_message(msg, pair, check, trig) ==
    IF check = "True"
    THEN <<Call(pair, "check_rules", msg, check), Call(pair, "trigger", msg, trig)>>
    ELSE <<Call(pair, "check_rules", msg, check)>>

\* can the callbacks raise on what this iteration hands them
CanRaise(l) == (IF l.message = "None" THEN NoUid ELSE l.uid) \in mayraise

\* mutant: a callback's exception is handled like a parse failure
Uncaught_Handled(o) == Goto(o, "mark_unseen", loc[o])

\* lines 93-94 stand outside the try: the exception leaves process_messages
Uncaught(o) == End(o, "CallbackError")

ProcessMessage(o) ==
    /\ pc[o] = "process_message"
    /\ \E check \in {"True", "False", "raise"}, trig \in {"ok", "raise"} :
         LET l == loc[o]
             calls == process_message(l.message, CALLBACKS_MAP[l.cb], check, trig)
             raised == calls[Len(calls)].res = "raise"
         IN /\ check # "True" => trig = "ok"
            /\ raised => CanRaise(l)
            /\ Obs(o, [cyc EXCEPT !.events[l.uid] = @ \o calls])
            /\ IF raised
               THEN Uncaught(o)
               ELSE Goto(o, IF l.cb < Len(CALLBACKS_MAP) THEN "process_message"
                            ELSE AfterCallbacks(l.message),
                         [l EXCEPT !.cb = @ + 1])
    /\ UNCHANGED <<flags, now, config, hist>>

(***************************************************************************)
(* mark_processed, line 130: remove_flags([uid], ['\\Flagged']).           *)
(***************************************************************************)
MarkProcessedRemove(o) ==
    /\ pc[o] = "mark_processed"
    /\ \/ /\ flags' = mark_processed_remove(flags, loc[o].uid)
          /\ Goto(o, "mark_processed_add", loc[o])
          /\ UNCHANGED cyc
       \/ GatewayRaise(o) /\ UNCHANGED flags
    /\ UNCHANGED <<now, config, hist>>

(***************************************************************************)
(* mark_processed, line 131: add_flags([uid], ['\\Seen']).                 *)
(***************************************************************************)
MarkProcessedAdd(o) ==
    /\ pc[o] = "mark_processed_add"
    /\ \/ /\ flags' = mark_processed_add(flags, loc[o].uid)
          /\ Goto(o, "loop", loc[o])
          /\ UNCHANGED cyc
       \/ GatewayRaise(o) /\ UNCHANGED flags
    /\ UNCHANGED <<now, config, hist>>

(***************************************************************************)
(* Time passes.                                                            *)
(***************************************************************************)
Tick ==
    /\ now < MaxTime
    /\ now' = now + 1
    /\ UNCHANGED <<flags, config, pc, loc, outcome, cyc, hist>>

Next ==
    \/ Tick
    \/ \E o \in Bots : ProcessMessages(o)
    \/ \E o \in Bots : RtSearch(o)
    \/ \E o \in Bots : RtFetch(o)
    \/ \E o \in Bots : RtMarkUnseen(o)
    \/ \E o \in Bots : GetMessageIds(o)
    \/ \E o \in Bots : Fetch(o)
    \/ \E o \in Bots : MarkProcessing(o)
    \/ \E o \in Bots : Return(o)
    \/ \E o \in Bots : MarkUnseen(o)
    \/ \E o \in Bots : ProcessMessage(o)
    \/ \E o \in Bots : MarkProcessedRemove(o)
    \/ \E o \in Bots : MarkProcessedAdd(o)

Spec == Init /\ [][Next]_vars

SpecSingle == InitSingle /\ [][Next]_vars

(***************************************************************************)
(* The flag operations on their own: SpecFlags applies up to MaxOps of     *)
(* them, one after the other, to a mailbox whose messages start with any   *)
(* of the four flag combinations, and records each application.            *)
(***************************************************************************)
InitFlags ==
    /\ InitWith(1..MaxUid, {}, FlagSets)
    /\ AnyCallRaises(1..MaxUid)
    /\ internaldate = [m \in 1..MaxUid |-> 0]
    /\ rfc822 = [m \in 1..MaxUid |-> "ok"]
    /\ CALLBACKS_MAP = <<>>

Applied(op, uids, after) ==
    /\ Len(hist) < MaxOps
    /\ flags' = after
    /\ hist' = Append(hist, [op |-> op, uids |-> uids, before |-> flags, after |-> after])
    /\ UNCHANGED <<now, config, pc, loc, outcome, cyc>>

ApplyMarkProcessing ==
    \E u \in DOMAIN flags : Applied("mark_processing", {u}, mark_processing(flags, u))

ApplyMarkProcessed ==
    \E u \in DOMAIN flags : Applied("mark_processed", {u}, mark_processed(flags, u))

ApplyMarkUnseen ==
    \E uids \in SUBSET DOMAIN flags :
        uids # {} /\ Applied("mark_unseen", uids, mark_unseen(flags, uids))

NextFlags == ApplyMarkProcessing \/ ApplyMarkProcessed \/ ApplyMarkUnseen

SpecFlags == InitFlags /\ [][NextFlags]_vars

(***************************************************************************)
(* A single MailBot with a timeout whose process_messages is called again  *)
(* and again, on a gateway that does not fail and answers every search     *)
(* with a list, while the clock advances past every arrival time plus      *)
(* timeout.  One pair is registered, whose calls never raise, or can raise *)
(* for one message, or can raise on None.  The MailBot is one sequential   *)
(* flow: whenever it can take its next step it eventually does (callbacks  *)
(* and gateway calls return).                                              *)
(***************************************************************************)
InitLive ==
    /\ InitWith(1..MaxUid, {"A"}, ValidFlagSets)
    /\ timeout["A"] # {}
    /\ CALLBACKS_MAP = <<1>>
    /\ mayraise \in {{}} \cup {{a} : a \in (1..MaxUid) \cup {NoUid}}

TickLive ==
    /\ now <= MaxDate + MaxTimeout
    /\ now' = now + 1
    /\ UNCHANGED <<flags, config, pc, loc, outcome, cyc, hist>>

OnReliableGateway(step) == step /\ ~cyc'.gwfail /\ cyc'.answer # "None"

NextLive ==
    \/ TickLive
    \/ \E o \in Bots : ProcessMessages(o)
    \/ \E o \in Bots : OnReliableGateway(RtSearch(o))
    \/ \E o \in Bots : OnReliableGateway(RtFetch(o))
    \/ \E o \in Bots : OnReliableGateway(RtMarkUnseen(o))
    \/ \E o \in Bots : OnReliableGateway(GetMessageIds(o))
    \/ \E o \in Bots : OnReliableGateway(Fetch(o))
    \/ \E o \in Bots : OnReliableGateway(MarkProcessing(o))
    \/ \E o \in Bots : Return(o)
    \/ \E o \in Bots : OnReliableGateway(MarkUnseen(o))
    \/ \E o \in Bots : ProcessMessage(o)
    \/ \E o \in Bots : OnReliableGateway(MarkProcessedRemove(o))
    \/ \E o \in Bots : OnReliableGateway(MarkProcessedAdd(o))

MailBotStep == NextLive /\ now' = now

SpecLive ==
    InitLive /\ [][NextLive]_vars /\ WF_vars(TickLive) /\ WF_vars(MailBotStep)

(***************************************************************************)
(* C1: no reachable state has a message with Flagged set and Seen not set, *)
(* whatever the interleaving of the gateway calls of two MailBots on the   *)
(* same mailbox, between the two calls of mark_processed included.         *)
(***************************************************************************)
C1_NeverInvalid == \A m \in DOMAIN flags : flags[m] # Invalid

\* A stands between the two calls of mark_processed and B's reaper has
\* reset the message in between
C1_Witness ==
    /\ pc["A"] = "mark_processed_add"
    /\ flags[loc["A"].uid] = Unprocessed
    /\ pc["B"] = "get_message_ids"

(***************************************************************************)
(* C2: a message becomes Processed only by the mark_processed of a MailBot *)
(* whose current iteration is on that message, parsed it, and went through *)
(* every registered pair without a raise; for the observed MailBot the     *)
(* recorded calls are check_rules of every pair in order, on the parsed    *)
(* message, and trigger for exactly the pairs whose check_rules was true.  *)
(***************************************************************************)
Checks(ev) == SelectSeq(ev, LAMBDA e : e.op = "check_rules")

Triggers(ev) == SelectSeq(ev, LAMBDA e : e.op = "trigger")

Pairs(ev) == [i \in 1..Len(ev) |-> ev[i].cb]

Matching(ev) == SelectSeq(Checks(ev), LAMBDA e : e.res = "True")

EvaluatedAll(ev) ==
    /\ \A i \in 1..Len(ev) : ev[i].res # "raise" /\ ev[i].arg = "message"
    /\ Pairs(Checks(ev)) = CALLBACKS_MAP
    /\ Pairs(Triggers(ev)) = Pairs(Matching(ev))

BecomesProcessed(m) == flags[m] # Processed /\ flags'[m] = Processed

C2_ProcessedOnlyAfterDispatch ==
    [][\A m \in DOMAIN flags :
          BecomesProcessed(m) =>
              \E o \in Bots :
                  /\ pc[o] \in {"mark_processed", "mark_processed_add"}
                  /\ pc'[o] # pc[o]
                  /\ loc[o].uid = m
                  /\ loc[o].message = "message"
                  /\ loc[o].cb = Len(CALLBACKS_MAP) + 1
                  /\ o = Observed => EvaluatedAll(cyc.events[m])]_vars

\* the observed MailBot has marked a message Processed after a trigger
C2_Witness ==
    \E m \in DOMAIN flags :
        /\ pc["A"] = "loop"
        /\ loc["A"].uid = m
        /\ flags[m] = Processed
        /\ Len(Triggers(cyc.events[m])) = Len(CALLBACKS_MAP)
        /\ Len(CALLBACKS_MAP) = MaxCallbacks

(***************************************************************************)
(* C3: mark_processing followed by mark_processed on a message leaves it   *)
(* Processed, whichever of the four flag combinations it started with.     *)
(***************************************************************************)
C3_ProcessingThenProcessed ==
    \A i \in 1..(Len(hist) - 1) :
        /\ hist[i].op = "mark_processing"
        /\ hist[i + 1].op = "mark_processed"
        /\ hist[i + 1].uids = hist[i].uids
        => \A u \in hist[i].uids : hist[i + 1].after[u] = Processed

\* the pair of operations was applied to a message that started Flagged and unseen
C3_Witness ==
    /\ Len(hist) = 2
    /\ hist[1].op = "mark_processing"
    /\ hist[2].op = "mark_processed"
    /\ hist[2].uids = hist[1].uids
    /\ \E u \in hist[1].uids : hist[1].before[u] = Invalid

(***************************************************************************)
(* C4: each flag operation applied twice to the same messages gives the    *)
(* flags it gave the first time, which are Unprocessed for mark_unseen,    *)
(* Processing for mark_processing and Processed for mark_processed; and an *)
(* operation leaves the flags of every other message as they were.         *)
(***************************************************************************)
ResultOf(op) ==
    CASE op = "mark_unseen" -> Unprocessed
      [] op = "mark_processing" -> Processing
      [] op = "mark_processed" -> Processed

C4_Idempotent ==
    /\ \A i \in 1..Len(hist) :
          /\ \A u \in hist[i].uids : hist[i].after[u] = ResultOf(hist[i].op)
          /\ \A m \in DOMAIN flags \ hist[i].uids : hist[i].after[m] = hist[i].before[m]
    /\ \A i \in 1..(Len(hist) - 1) :
          hist[i].op = hist[i + 1].op /\ hist[i].uids = hist[i + 1].uids
              => hist[i + 1].after = hist[i].after

\* mark_unseen was applied twice to a Processing message beside a Processed one
C4_Witness ==
    /\ Len(hist) = 2
    /\ hist[1].op = "mark_unseen"
    /\ hist[2].op = "mark_unseen"
    /\ hist[1].uids = hist[2].uids
    /\ \E u \in hist[1].uids, m \in DOMAIN flags \ hist[1].uids :
          hist[1].before[u] = Processing /\ hist[1].before[m] = Processed

(***************************************************************************)
(* The observed MailBot's cycle, as the claims below speak of it.          *)
(***************************************************************************)
Found == IF cyc.found = {} THEN {} ELSE CHOOSE f \in cyc.found : TRUE

\* reset_timeout_messages has just returned
ReaperDone == cyc.rnow # {} /\ pc[Observed] = "get_message_ids"

ReaperNow == CHOOSE t \in cyc.rnow : TRUE

CycleEnded == pc[Observed] = "idle" /\ outcome[Observed] \notin {"none", "running"}

CycleReturned == pc[Observed] = "idle" /\ outcome[Observed] = "returned"

Raised(ev) == \E i \in 1..Len(ev) : ev[i].res = "raise"

(***************************************************************************)
(* C5 as the spec states it: a run of the reaper at time now with timeout  *)
(* D resets a Processing message of arrival time T iff now - T >= D.       *)
(* The code resets it iff T < now - D: this statement is violated.         *)
(***************************************************************************)
C5_ResetIffAtLeastTimeout ==
    ReaperDone =>
        \A m \in DOMAIN flags :
            cyc.pre[m] = Processing =>
                LET age == ReaperNow - internaldate[m]
                    D == Seconds(timeout[Observed])
                IN IF age >= D THEN flags[m] = Unprocessed ELSE flags[m] = Processing

(***************************************************************************)
(* C5 amended: a run of the reaper at time now with timeout D resets a     *)
(* Processing message of arrival time T iff now - T > D; a Processing      *)
(* message with now - T <= D keeps Seen and Flagged.                       *)
(***************************************************************************)
C5_ResetIffOlderThanTimeout ==
    ReaperDone =>
        \A m \in DOMAIN flags :
            cyc.pre[m] = Processing =>
                LET age == ReaperNow - internaldate[m]
                    D == Seconds(timeout[Observed])
                IN IF age > D THEN flags[m] = Unprocessed ELSE flags[m] = Processing

\* the reaper has run over a message older than the timeout and one whose
\* age is exactly the timeout
C5_Witness ==
    /\ ReaperDone
    /\ \E m1, m2 \in DOMAIN flags :
          /\ cyc.pre[m1] = Processing /\ cyc.pre[m2] = Processing
          /\ ReaperNow - internaldate[m1] > Seconds(timeout[Observed])
          /\ ReaperNow - internaldate[m2] = Seconds(timeout[Observed])
          /\ flags[m1] = Unprocessed /\ flags[m2] = Processing

(***************************************************************************)
(* C6: with a timeout configured, when the reaper's search answers with no *)
(* candidates (an empty list or None) and no gateway call raises, the      *)
(* reaper raises nothing, changes no flag and the cycle goes on to the     *)
(* candidate search.  The code raises UnboundLocalError on None.           *)
(***************************************************************************)
C6_ReaperNoOpOnEmptySearch ==
    cyc.answer \in {"None", "empty"} /\ ~cyc.gwfail =>
        /\ outcome[Observed] # "UnboundLocalError"
        /\ pc[Observed] \in {"rt_fetch", "get_message_ids"} => flags = cyc.pre
        /\ pc[Observed] # "rt_mark_unseen"
        /\ pc[Observed] = "idle" => cyc.found # {}

(***************************************************************************)
(* C7: with timeout None and a single MailBot, a message that is           *)
(* Processing when a cycle starts is Processing in every state of the      *)
(* cycle, its end included, and is not returned by the candidate search.   *)
(***************************************************************************)
C7_NoTimeoutNoReset ==
    timeout[Observed] = {} =>
        \A m \in DOMAIN flags :
            cyc.pre[m] = Processing => flags[m] = Processing /\ m \notin Found

\* a cycle that processed another message has returned, long after the
\* arrival of a message that is still Processing
C7_Witness ==
    /\ timeout[Observed] = {}
    /\ CycleReturned
    /\ cyc.claimed # {}
    /\ \E m \in DOMAIN flags :
          /\ cyc.pre[m] = Processing
          /\ now - internaldate[m] = MaxTime

(***************************************************************************)
(* C8 as claimed, for the cycles in which no gateway call raises: a        *)
(* message that is Processing and older than the timeout when the cycle    *)
(* starts has been claimed and dispatched again when the cycle ends.  A    *)
(* raise from a callback of a message iterated earlier ends the cycle      *)
(* before its turn: this statement is violated.                            *)
(***************************************************************************)
OldAtStart(m) ==
    /\ timeout[Observed] # {}
    /\ cyc.pre[m] = Processing
    /\ cyc.start - internaldate[m] > Seconds(timeout[Observed])

Dispatched(m) == Pairs(Checks(cyc.events[m])) # <<>> \/ CALLBACKS_MAP = <<>>

DispatchOver(o) == pc[o] \in {"mark_processed", "mark_processed_add"}

C9_TriggerExactlyMatching ==
    DispatchOver(Observed) =>
        LET ev == cyc.events[loc[Observed].uid]
        IN /\ Pairs(Checks(ev)) = CALLBACKS_MAP
           /\ \A i \in 1..Len(ev) :
                 /\ ev[i].arg = "message"
                 /\ ev[i].op = "trigger" =>
                       /\ i > 1
                       /\ ev[i - 1].op = "check_rules"
                       /\ ev[i - 1].cb = ev[i].cb
                       /\ ev[i - 1].res = "True"
                 /\ (ev[i].op = "check_rules" /\ ev[i].res = "True") =>
                       /\ i < Len(ev)
                       /\ ev[i + 1].op = "trigger"
                       /\ ev[i + 1].cb = ev[i].cb

\* the dispatch over MaxCallbacks pairs ended with the first pair not
\* matching and the last one triggered
C9_Witness ==
    /\ DispatchOver(Observed)
    /\ Len(CALLBACKS_MAP) = MaxCallbacks
    /\ LET ev == cyc.events[loc[Observed].uid]
       IN /\ ev[1].res = "False"
          /\ ev[Len(ev)].op = "trigger"
          /\ Len(Triggers(ev)) < Len(Checks(ev))

(***************************************************************************)
(* C10 as claimed: when a cycle in which no gateway call raised has ended, *)
(* every message the candidate search returned that parses and had no      *)
(* callback raise is Processed, and was triggered once if one pair         *)
(* matched.  A raise from another message's callback ends the cycle before *)
(* the turn of the messages not yet iterated: this statement is violated.  *)
(***************************************************************************)
ProcessedAsDispatched(m) ==
    /\ flags[m] = Processed
    /\ Len(Matching(cyc.events[m])) = 1 => Len(Triggers(cyc.events[m])) = 1

ParseFailed(m) == m \in cyc.claimed /\ rfc822[m] = "bad"

C11_NoCallbackAfterParseFailure ==
    \A m \in DOMAIN flags :
        ParseFailed(m) =>
            /\ cyc.events[m] = <<>>
            /\ (CycleReturned /\ ~cyc.gwfail) =>
                  flags[m] = Unprocessed /\ LogProcessMessages(m) \in cyc.errlog

(***************************************************************************)
(* C12: a parse failure does not abort the cycle.  In a cycle in which a   *)
(* message failed to parse, no gateway call failed and no callback raised  *)
(* on a parsed message, process_messages returns, and every fetched        *)
(* message was claimed and, when it parses, dispatched to every registered *)
(* pair and marked Processed.  The callbacks that lines 93-94 call with    *)
(* None after the parse failure can raise: this statement is violated.     *)
(***************************************************************************)
NoRaiseOnParsed == \A m \in DOMAIN flags : rfc822[m] = "ok" => ~Raised(cyc.events[m])

C12_ParseFailureDoesNotAbort ==
    /\ CycleEnded
    /\ ~cyc.gwfail
    /\ NoRaiseOnParsed
    /\ \E m \in DOMAIN flags : ParseFailed(m)
    => /\ CycleReturned
       /\ \A m \in Found :
             /\ m \in cyc.claimed
             /\ rfc822[m] = "ok" =>
                   flags[m] = Processed /\ EvaluatedAll(cyc.events[m])

(***************************************************************************)
(* C13: when the bulk fetch of the candidates fails, process_messages ends *)
(* with the "Error in get_messages" exception, whose text was logged and   *)
(* carries the ids that were searched; no message was marked Processing,   *)
(* no callback was called, and every candidate is Unprocessed as it was    *)
(* when the search selected it.                                            *)
(***************************************************************************)
FetchFailed == "fetch" \in cyc.failed

C13_FetchFailureEndsCycle ==
    FetchFailed =>
        /\ pc[Observed] = "idle"
        /\ outcome[Observed] = "Error in get_messages"
        /\ cyc.found # {}
        /\ \E e \in cyc.errlog : e.where = "get_messages" /\ e.uids = Found
        /\ cyc.claimed = {}
        /\ \A m \in DOMAIN flags : cyc.events[m] = <<>>
        /\ \A m \in Found : flags[m] = Unprocessed

\* the fetch of MaxUid candidates failed, with callbacks registered, in a
\* cycle whose reaper had reset a message
C13_Witness ==
    /\ FetchFailed
    /\ Cardinality(Found) = MaxUid
    /\ CALLBACKS_MAP # <<>>
    /\ \E m \in Found : cyc.pre[m] = Processing

(***************************************************************************)
(* C14: when check_rules or trigger raises for a parsed message, the       *)
(* exception leaves process_messages at that step: the call ends with it,  *)
(* no flag is changed, the calls already made for the message stay made,   *)
(* and the message is left in Processing.  A message in Processing that    *)
(* the MailBot is not iterating on leaves Processing only by the reaper's  *)
(* mark_unseen, which makes it Unprocessed.                                *)
(***************************************************************************)
RaisesOnParsed(o, m) ==
    /\ pc[o] = "process_message"
    /\ loc[o].uid = m
    /\ loc[o].message = "message"
    /\ Raised(cyc'.events[m])

C14_CallbackRaiseLeavesProcessing ==
    [][\A m \in DOMAIN flags :
          /\ RaisesOnParsed(Observed, m) =>
                /\ pc'[Observed] = "idle"
                /\ outcome'[Observed] = "CallbackError"
                /\ flags' = flags
                /\ flags[m] = Processing
                /\ SubSeq(cyc'.events[m], 1, Len(cyc.events[m])) = cyc.events[m]
          /\ (flags[m] = Processing /\ loc[Observed].uid # m /\ flags'[m] # Processing) =>
                /\ pc[Observed] = "rt_mark_unseen"
                /\ m \in loc[Observed].to_reset
                /\ flags'[m] = Unprocessed]_vars

\* the second pair raised after the first one's trigger had run; the
\* message is in Processing after the call, and time has passed since
C14_Witness ==
    \E m \in DOMAIN flags :
        /\ pc[Observed] = "idle"
        /\ outcome[Observed] = "CallbackError"
        /\ flags[m] = Processing
        /\ rfc822[m] = "ok"
        /\ Len(cyc.events[m]) = 3
        /\ cyc.events[m][2].op = "trigger"
        /\ cyc.events[m][3].res = "raise"
        /\ now > cyc.start

(***************************************************************************)
(* C15: a gateway failure during a flag operation (mark_processing,        *)
(* mark_unseen, either call of mark_processed, the reaper's mark_unseen)   *)
(* ends process_messages with the gateway's exception; a message whose     *)
(* mark_processing failed gets no parse-failure log record and no callback *)
(* call.  The try of line 73 encloses mark_processing, so its failure is   *)
(* handled like a parse failure: this statement is violated.               *)
(***************************************************************************)
FlagSteps ==
    {"mark_processing", "mark_unseen", "mark_processed", "mark_processed_add",
     "rt_mark_unseen"}

C15_FlagFailurePropagates ==
    cyc.failed \cap FlagSteps # {} =>
        /\ pc[Observed] = "idle"
        /\ outcome[Observed] = "GatewayError"
        /\ \A m \in Found \ cyc.claimed :
              LogProcessMessages(m) \notin cyc.errlog /\ cyc.events[m] = <<>>

(***************************************************************************)
(* C16 as the spec states it: marking a message Processing claims it, so   *)
(* two MailBots never both hold an outstanding claim (marked Processing,   *)
(* callbacks being dispatched, not yet marked Processed) on one message.   *)
(* Both can have searched before either marked: this statement is          *)
(* violated.                                                               *)
(***************************************************************************)
Claiming(o, m) ==
    /\ pc[o] \in {"process_message", "mark_processed"}
    /\ loc[o].uid = m
    /\ loc[o].message = "message"

C16_ExclusiveClaim ==
    \A m \in DOMAIN flags : ~(Claiming("A", m) /\ Claiming("B", m))

(***************************************************************************)
(* C16 amended: a candidate search that runs while a message is Processing *)
(* does not select it, and a cycle marks Processing and calls callbacks    *)
(* only for messages that its own candidate search selected.               *)
(***************************************************************************)
C16_ProcessingHidesFromSearch ==
    [][/\ \A m \in DOMAIN flags :
             (m \in cyc'.claimed \/ cyc'.events[m] # <<>>) => m \in Found'
       /\ (cyc'.found # cyc.found /\ cyc'.found # {}) =>
             \A m \in DOMAIN flags : flags[m] = Processing => m \notin Found']_vars

\* B holds a claim on a message that was Unprocessed when A's cycle
\* started, and A's candidate search has selected nothing
C16_Witness ==
    \E m \in DOMAIN flags :
        /\ Claiming("B", m)
        /\ cyc.pre[m] = Unprocessed
        /\ pc["A"] = "fetch"
        /\ cyc.found = {{}}

(***************************************************************************)
(* C17: with a timeout configured, process_messages called again and       *)
(* again, the clock advancing and a gateway that does not fail, every      *)
(* message that is in Processing is eventually Unprocessed (reset by the   *)
(* reaper) or Processed.                                                   *)
(***************************************************************************)
C17_NoMessageStaysProcessing ==
    \A m \in 1..MaxUid :
        (flags[m] = Processing) ~> (flags[m] \in {Unprocessed, Processed})

\* a callback raised for a parsed message, which is left in Processing
C17_Witness ==
    \E m \in DOMAIN flags :
        /\ pc[Observed] = "idle"
        /\ outcome[Observed] = "CallbackError"
        /\ flags[m] = Processing
        /\ cyc.pre[m] = Unprocessed
        /\ Raised(cyc.events[m])
        /\ internaldate[m] = MaxDate
        /\ timeout[Observed] = {MaxTimeout}

(***************************************************************************)
(* C18 as the spec states it: with process_messages called again and       *)
(* again, a timeout and a gateway that does not fail, every Unprocessed    *)
(* message that parses and whose own callbacks never raise is eventually   *)
(* Processed, whatever the other messages of the mailbox do.  Another      *)
(* message whose callback raises can come first in every cycle and end it: *)
(* this statement is violated.                                             *)
(***************************************************************************)
Healthy(m) == rfc822[m] = "ok" /\ m \notin mayraise

C19_ProcessedIsTerminal ==
    \A m \in DOMAIN flags :
        cyc.pre[m] = Processed =>
            /\ flags[m] = Processed
            /\ m \notin loc[Observed].rt_ids \cup loc[Observed].to_reset
            /\ m \notin Found
            /\ m \notin loc[Observed].ids \cup loc[Observed].messages
            /\ m \notin cyc.claimed
            /\ cyc.events[m] = <<>>

\* a cycle with a timeout has returned, long after the arrival of a message
\* that was Processed when it started, and has processed another message
C19_Witness ==
    \E m, other \in DOMAIN flags :
        /\ CycleReturned
        /\ timeout[Observed] # {}
        /\ cyc.pre[m] = Processed
        /\ cyc.start - internaldate[m] > Seconds(timeout[Observed])
        /\ cyc.pre[other] = Unprocessed
        /\ flags[other] = Processed
        /\ cyc.events[other] # <<>>

(***************************************************************************)
(* C20: every gateway failure inside get_messages, in the candidate search *)
(* or in the bulk fetch, ends process_messages with the "Error in          *)
(* get_messages" exception, whose text was logged.  When the search fails  *)
(* ids is unbound in the handler: this statement is violated.              *)
(***************************************************************************)
C20_GetMessagesFailureIsWrapped ==
    cyc.failed \cap {"get_message_ids", "fetch"} # {} =>
        /\ pc[Observed] = "idle"
        /\ outcome[Observed] = "Error in get_messages"
        /\ \E e \in cyc.errlog : e.where = "get_messages"

=============================================================================
